---- MODULE Spec2Model ----
(***************************************************************************)
(* A model of rexrunner/yaml_run.py: the timeout parser (Test.get_timeout), *)
(* the process executor (Test.execute), the rule evaluators (Validator) and *)
(* the run loop (Runner.run).                                               *)
(*                                                                          *)
(* Strings are sequences of one-character strings.  Python values are       *)
(* records [kind, v]: kind is "bool", "int" or "None", or the name of the   *)
(* exception the evaluation raised.                                         *)
(***************************************************************************)
EXTENDS Integers, Sequences, FiniteSets, TLC

\* ------------------------------------------------------------------ bounds
MaxTests == 2     \* longest test list of the run family
MaxRules == 2     \* longest verify list of the validator family
MaxLen == 4       \* longest timeout string of the parser family
MaxInt == 2       \* largest integer timeout of the parser family

\* ----------------------------------------------------------- Python values
PyNone == [kind |-> "None", v |-> 0]
PyInt(n) == [kind |-> "int", v |-> n]
PyBool(b) == [kind |-> "bool", v |-> IF b THEN 1 ELSE 0]
Raise(exc) == [kind |-> exc, v |-> 0]
Exceptions == {"ValueError", "PermissionError"}
IsRaise(x) == x.kind \in Exceptions
\* truth value of an int or a bool: non-zero
Truthy(x) == x.v # 0
\* `not x`
PyNot(x) == PyBool(~Truthy(x))

\* a | b on bools and on the ints 0 and 1: bool | bool is a bool, every other
\* combination an int
PyOr_Assign(a, b) == b
PyOr(a, b) ==
    [kind |-> IF a.kind = "bool" /\ b.kind = "bool" THEN "bool" ELSE "int",
     v |-> IF a.v = 1 \/ b.v = 1 THEN 1 ELSE 0]

\* ----------------------------------------------------------------- strings
Digits == {"0", "1", "2", "3", "4", "5", "6", "7", "8", "9"}
Whitespace == {" "}

DigitVal(c) ==
    CASE c = "0" -> 0 [] c = "1" -> 1 [] c = "2" -> 2 [] c = "3" -> 3
      [] c = "4" -> 4 [] c = "5" -> 5 [] c = "6" -> 6 [] c = "7" -> 7
      [] c = "8" -> 8 [] c = "9" -> 9

\* str.lower() on the characters the model draws from
LowerChar(c) == CASE c = "H" -> "h" [] c = "M" -> "m" [] c = "S" -> "s" [] OTHER -> c
Lower(s) == [k \in 1..Len(s) |-> LowerChar(s[k])]

\* c in s
Contains(s, c) == \E k \in 1..Len(s) : s[k] = c

\* s.split(c): the list of the parts of s between the occurrences of c
Split(s, c) ==
    LET at == {k \in 1..Len(s) : s[k] = c}
        n == Cardinality(at)
        \* where the j-th c is; 0 and Len(s) + 1 stand for the two ends of s
        pos(j) == IF j = 0 THEN 0
                  ELSE IF j = n + 1 THEN Len(s) + 1
                  ELSE CHOOSE k \in at : Cardinality({m \in at : m <= k}) = j
    IN [j \in 1..(n + 1) |-> SubSeq(s, pos(j - 1) + 1, pos(j) - 1)]

\* int(s) succeeds on a non-empty string of digits (signs, blanks and
\* underscores are not in the alphabet of the model)
IsNumeric(s) == Len(s) > 0 /\ \A k \in 1..Len(s) : s[k] \in Digits
RECURSIVE DecimalValue(_)
DecimalValue(s) ==
    IF Len(s) = 0 THEN 0
    ELSE 10 * DecimalValue(SubSeq(s, 1, Len(s) - 1)) + DigitVal(s[Len(s)])

\* s.strip(): s without its leading and trailing whitespace
RECURSIVE Strip(_)
Strip(s) ==
    IF Len(s) = 0 THEN s
    ELSE IF s[1] \in Whitespace THEN Strip(Tail(s))
    ELSE IF s[Len(s)] \in Whitespace THEN Strip(SubSeq(s, 1, Len(s) - 1))
    ELSE s

\* re.search(expression, output) for an expression without metacharacters:
\* the expression occurs somewhere in the output
ReSearch(expression, output) ==
    \E k \in 0..(Len(output) - Len(expression)) :
        SubSeq(output, k + 1, k + Len(expression)) = expression

\* ------------------------------------------------------ Test.get_timeout
TimeoutInt(n) == [kind |-> "int", n |-> n, s |-> <<>>]
TimeoutStr(s) == [kind |-> "str", n |-> 0, s |-> s]

SecondsPerHour == 3600
SecondsPerMinute == 60

\* the parser's locals after each of its three steps; raised marks a ValueError
ParseStart(s) == [raised |-> FALSE, seconds |-> 0, time_string |-> Lower(s)]
ParseRaised == [raised |-> TRUE, seconds |-> 0, time_string |-> <<>>]

\* if unit in time_string: value, time_string = time_string.split(unit)
\*                         seconds += factor * int(value)
ParseUnit(st, unit, factor) ==
    IF st.raised \/ ~Contains(st.time_string, unit) THEN st
    ELSE LET parts == Split(st.time_string, unit)
         IN IF Len(parts) # 2 \/ ~IsNumeric(parts[1]) THEN ParseRaised
            ELSE [raised |-> FALSE,
                  seconds |-> st.seconds + factor * DecimalValue(parts[1]),
                  time_string |-> parts[2]]

\* if time_string: seconds += int(time_string.split('s')[0])
ParseSeconds(st) ==
    IF st.raised \/ st.time_string = <<>> THEN st
    ELSE LET first == Split(st.time_string, "s")[1]
         IN IF ~IsNumeric(first) THEN ParseRaised
            ELSE [st EXCEPT !.seconds = st.seconds + DecimalValue(first)]

\* the three steps in turn, each on the value the step before left
get_timeout(timeout_value) ==
    IF timeout_value.kind = "int" THEN PyNone
    ELSE LET start == {ParseStart(timeout_value.s)}
             after_h == {ParseUnit(st, "h", SecondsPerHour) : st \in start}
             after_m == {ParseUnit(st, "m", SecondsPerMinute) : st \in after_h}
             after_s == {ParseSeconds(st) : st \in after_m}
         IN CHOOSE r \in {IF st.raised THEN Raise("ValueError") ELSE PyInt(st.seconds) :
                            st \in after_s} : TRUE

\* ------------------------------------------------------------ Validator
\* validate_match_output: 0 when the expression is found in the output, else 1
validate_match_output(output, expression) ==
    IF ReSearch(expression, output) THEN PyInt(0) ELSE PyInt(1)

\* validate_match_ec: 0 when the exit code is the expected one, else 1
validate_match_ec(exit_code, expected_exit_code) ==
    IF exit_code = expected_exit_code THEN PyInt(0) ELSE PyInt(1)

\* validate_match_cmd_output: Popen of the secondary command, communicate()
\* without a timeout, and the match on its unstripped stdout.  Only
\* FileNotFoundError (and CalledProcessError, which Popen never raises) is
\* caught; a PermissionError leaves the method.
validate_match_cmd_output(command, expression) ==
    CASE command.launch = "ENOENT" -> PyInt(1)
      [] command.launch = "EACCES" -> Raise("PermissionError")
      [] command.launch = "ok" -> validate_match_output(command.stdout, expression)

CmdRuleNames == {"MATCH_CMD_OUTPUT", "NOT_MATCH_CMD_OUTPUT"}

\* run_validator: the if/elif chain over the rule name
run_validator(verify, test_exit_code, test_output) ==
    CASE verify.name = "MATCH_OUTPUT" -> validate_match_output(test_output, verify.output)
      [] verify.name = "MATCH_EC" -> validate_match_ec(test_exit_code, verify.ec)
      [] verify.name = "MATCH_CMD_OUTPUT" ->
            validate_match_cmd_output(verify.command, verify.output)
      [] verify.name = "NOT_MATCH_CMD_OUTPUT" ->
            LET r == validate_match_cmd_output(verify.command, verify.output)
            IN IF IsRaise(r) THEN r ELSE PyNot(r)

\* `for verify in verify_list` of run_validators: the loop ends with the list,
\* whatever fail_status is
LoopDone_ShortCircuit(verify_list, k, status) == k > Len(verify_list) \/ Truthy(status)
LoopDone(verify_list, k, status) == k > Len(verify_list)

\* --------------------------------------------------------- Test.execute
\* the outcome of execute after subprocess.TimeoutExpired
TimeoutOutcome_ZeroCode == [return_code |-> 0, stdout |-> <<>>, stderr |-> <<>>]
TimeoutOutcome == [return_code |-> 1, stdout |-> <<>>, stderr |-> <<>>]

\* os.strerror(ENOENT), the strerror of the FileNotFoundError Popen raises
StrErrorENOENT ==
    <<"N", "o", " ", "s", "u", "c", "h", " ", "f", "i", "l", "e", " ", "o", "r", " ",
      "d", "i", "r", "e", "c", "t", "o", "r", "y">>

\* return_code, stdout and stderr before execute has assigned them
NoOutcome == [return_code |-> 0, stdout |-> <<>>, stderr |-> <<>>]

\* the outcome of execute after FileNotFoundError
NotFoundOutcome == [return_code |-> 1, stdout |-> Strip(StrErrorENOENT), stderr |-> Strip(<<>>)]

\* the outcome of execute when communicate returns
ExitOutcome(command) ==
    [return_code |-> command.returncode, stdout |-> Strip(command.stdout),
     stderr |-> Strip(command.stderr)]

\* status = 'PASS' if not result else 'FAIL' of Test.verify
Status(result) == IF ~Truthy(result) THEN "PASS" ELSE "FAIL"

\* ----------------------------------------------------------- Runner.run
\* if result: failures += 1
NextFailures_Always(n, result) == n + 1
NextFailures(n, result) == IF Truthy(result) THEN n + 1 ELSE n

\* the totals Runner.run logs before it exits
Totals(count, n) == [total |-> count, passed |-> count - n, failed |-> n]
NoTotals == [total |-> 0, passed |-> 0, failed |-> 0]

\* ------------------------------------------------------------ the inputs
\* What a command does when it is run: whether Popen starts it ("ok"), or the
\* executable is missing ("ENOENT") or may not be executed ("EACCES"); whether
\* it ever ends and after how many seconds; what it returns and writes.
Command(launch, ends, dur, returncode, stdout) ==
    [launch |-> launch, ends |-> ends, dur |-> dur, returncode |-> returncode,
     stdout |-> stdout, stderr |-> <<>>]

EchoOk == Command("ok", TRUE, 0, 0, <<"O", "K", " ">>)
EchoNo == Command("ok", TRUE, 0, 2, <<"N", "O", " ">>)
SleepThree == Command("ok", TRUE, 3, 0, <<"O", "K">>)
Loop == Command("ok", FALSE, 0, 0, <<>>)
Missing == Command("ENOENT", TRUE, 0, 0, <<>>)
NotExecutable == Command("EACCES", TRUE, 0, 0, <<>>)

Rule(name, ec, output, command) ==
    [name |-> name, ec |-> ec, output |-> output, command |-> command]
MatchEc(ec) == Rule("MATCH_EC", ec, <<>>, EchoOk)
MatchOutput(expression) == Rule("MATCH_OUTPUT", 0, expression, EchoOk)

Rules ==
    {MatchEc(0), MatchEc(1), MatchOutput(<<"O", "K">>), MatchOutput(<<>>)}
    \cup {Rule(name, 0, <<"O", "K">>, command) :
            name \in CmdRuleNames, command \in {EchoOk, EchoNo, Missing, NotExecutable}}

SeqsUpTo(S, n) == UNION {[1..k -> S] : k \in 0..n}

TestData(command, timeout, verify) ==
    [command |-> command, timeout |-> timeout, verify |-> verify]

\* the run family: lists of tests over every kind of command
RunLists ==
    SeqsUpTo({TestData(c, t, <<r>>) :
                c \in {EchoOk, SleepThree, Loop, Missing, NotExecutable},
                t \in {TimeoutInt(1), TimeoutStr(<<"2", "s">>)},
                r \in {MatchEc(0), MatchEc(1)}},
             MaxTests)

\* the validator family: one test with every verify list
ValidatorLists ==
    {<<TestData(c, TimeoutStr(<<"2", "s">>), v)>> :
        c \in {EchoOk, Loop, Missing}, v \in SeqsUpTo(Rules, MaxRules)}

\* the parser family: one test with every timeout value
Alphabet == {"1", "2", "h", "m", "s", "x", "H"}
ParserLists ==
    {<<TestData(c, t, <<MatchEc(0)>>)>> :
        c \in {EchoOk, Loop},
        t \in {TimeoutInt(n) : n \in 0..MaxInt}
              \cup {TimeoutStr(s) : s \in SeqsUpTo(Alphabet, MaxLen)}}

\* -------------------------------------------------------------- the state
VARIABLES
    data_list,    \* Runner.data_list
    pc,           \* "load": Runner() is constructed, load_tests not yet called;
                  \* "run": at the head of the loop of Runner.run;
                  \* "communicate": execute waits in communicate;
                  \* "verify": run_validators is at rule vi;
                  \* "exited": exit(failures) was called;
                  \* "crashed": an exception left Runner.run
    i,            \* the index of the test the loop of Runner.run is at
    failures,     \* Runner.run's failures
    timeout,      \* the value get_timeout returned for test i
    procs,        \* the child process of each test: "none", "running", "exited"
    outcome,      \* what execute returned for test i
    vi,           \* the index of the rule run_validators is at
    fail_status,  \* run_validators' fail_status
    results,      \* history: what run_validator returned for the rules of test i
    spawned,      \* history: the rules of test i whose secondary Popen was called
    outcomes,     \* history: what execute returned, test by test
    how,          \* history: how execute ended, test by test
    verdicts,     \* history: what Test.run returned, test by test
    exit_status,  \* the argument of exit(), PyNone before
    totals,       \* the totals logged
    exception     \* the exception that left Runner.run, "" if none

vars == <<data_list, pc, i, failures, timeout, procs, outcome, vi, fail_status,
          results, spawned, outcomes, how, verdicts, exit_status, totals, exception>>

\* Runner.__init__
Init ==
    /\ data_list = <<>>
    /\ pc = "load"
    /\ i = 1
    /\ failures = 0
    /\ timeout = PyNone
    /\ procs = <<>>
    /\ outcome = NoOutcome
    /\ vi = 1
    /\ fail_status = PyBool(FALSE)
    /\ results = <<>>
    /\ spawned = <<>>
    /\ outcomes = <<>>
    /\ how = <<>>
    /\ verdicts = <<>>
    /\ exit_status = PyNone
    /\ totals = NoTotals
    /\ exception = ""

\* load_tests appends the tests of the file to data_list; main then calls run
load_tests ==
    /\ pc = "load"
    /\ \E tests \in RunLists \cup ValidatorLists \cup ParserLists :
          /\ data_list' = data_list \o tests
          /\ procs' = [k \in 1..Len(tests) |-> "none"]
    /\ pc' = "run"
    /\ UNCHANGED <<i, failures, timeout, outcome, vi, fail_status, results, spawned,
                   outcomes, how, verdicts, exit_status, totals, exception>>

test == data_list[i]

\* execute returns: Test.run calls verify, which enters run_validators
Returned(result, way) ==
    /\ outcome' = result
    /\ outcomes' = Append(outcomes, result)
    /\ how' = Append(how, way)
    /\ pc' = "verify"
    /\ vi' = 1
    /\ fail_status' = PyBool(FALSE)
    /\ results' = <<>>
    /\ spawned' = <<>>

\* an exception nobody catches leaves execute, Test.run and Runner.run
Crashed(exc) ==
    /\ pc' = "crashed"
    /\ exception' = exc

\* execute: Popen starts the child, get_timeout resolves the timeout and
\* communicate starts to wait
Execute_Communicate ==
    /\ pc = "run" /\ i <= Len(data_list)
    /\ test.command.launch = "ok"
    /\ ~IsRaise(get_timeout(test.timeout))
    /\ procs' = [procs EXCEPT ![i] = "running"]
    /\ timeout' = get_timeout(test.timeout)
    /\ pc' = "communicate"
    /\ UNCHANGED <<data_list, i, failures, outcome, vi, fail_status, results, spawned,
                   outcomes, how, verdicts, exit_status, totals, exception>>

\* execute: Popen starts the child and get_timeout raises ValueError, which
\* execute does not catch
Execute_ValueError ==
    /\ pc = "run" /\ i <= Len(data_list)
    /\ test.command.launch = "ok"
    /\ IsRaise(get_timeout(test.timeout))
    /\ procs' = [procs EXCEPT ![i] = "running"]
    /\ Crashed(get_timeout(test.timeout).kind)
    /\ UNCHANGED <<data_list, i, failures, timeout, outcome, vi, fail_status, results,
                   spawned, outcomes, how, verdicts, exit_status, totals>>

\* execute: Popen raises FileNotFoundError, which execute catches
Execute_FileNotFoundError ==
    /\ pc = "run" /\ i <= Len(data_list)
    /\ test.command.launch = "ENOENT"
    /\ Returned(NotFoundOutcome, "notfound")
    /\ UNCHANGED <<data_list, i, failures, timeout, procs, verdicts, exit_status, totals,
                   exception>>

\* execute: Popen raises PermissionError, which execute does not catch
Execute_PermissionError ==
    /\ pc = "run" /\ i <= Len(data_list)
    /\ test.command.launch = "EACCES"
    /\ Crashed("PermissionError")
    /\ UNCHANGED <<data_list, i, failures, timeout, procs, outcome, vi, fail_status,
                   results, spawned, outcomes, how, verdicts, exit_status, totals>>

\* communicate returns: the child ended, within the timeout if there is one
Communicate_Returns ==
    /\ pc = "communicate"
    /\ test.command.ends
    /\ timeout = PyNone \/ test.command.dur <= timeout.v
    /\ procs' = [procs EXCEPT ![i] = "exited"]
    /\ Returned(ExitOutcome(test.command), "normal")
    /\ UNCHANGED <<data_list, i, failures, timeout, verdicts, exit_status, totals,
                   exception>>

\* communicate raises TimeoutExpired, which execute catches; nothing kills or
\* waits for the child
Communicate_TimeoutExpired ==
    /\ pc = "communicate"
    /\ timeout # PyNone
    /\ ~test.command.ends \/ test.command.dur >= timeout.v
    /\ Returned(TimeoutOutcome, "timeout")
    /\ UNCHANGED <<data_list, i, failures, timeout, procs, verdicts, exit_status, totals,
                   exception>>

\* a child nobody waits for ends by itself
Child_Exits(k) ==
    /\ procs[k] = "running"
    /\ ~(pc = "communicate" /\ i = k)
    /\ data_list[k].command.ends
    /\ procs' = [procs EXCEPT ![k] = "exited"]
    /\ UNCHANGED <<data_list, pc, i, failures, timeout, outcome, vi, fail_status, results,
                   spawned, outcomes, how, verdicts, exit_status, totals, exception>>

rule == test.verify[vi]
SpawnedBy(verify, k) == IF verify.name \in CmdRuleNames THEN <<k>> ELSE <<>>

\* run_validators: one turn of the loop, fail_status |= run_validator(...)
RunValidator ==
    /\ pc = "verify"
    /\ ~LoopDone(test.verify, vi, fail_status)
    /\ LET r == run_validator(rule, outcome.return_code, outcome.stdout)
       IN /\ ~IsRaise(r)
          /\ fail_status' = PyOr(fail_status, r)
          /\ results' = Append(results, r)
    /\ spawned' = spawned \o SpawnedBy(rule, vi)
    /\ vi' = vi + 1
    /\ UNCHANGED <<data_list, pc, i, failures, timeout, procs, outcome, outcomes, how,
                   verdicts, exit_status, totals, exception>>

\* run_validators: the secondary Popen raises PermissionError, which nothing
\* catches
RunValidator_PermissionError ==
    /\ pc = "verify"
    /\ ~LoopDone(test.verify, vi, fail_status)
    /\ LET r == run_validator(rule, outcome.return_code, outcome.stdout)
       IN /\ IsRaise(r)
          /\ Crashed(r.kind)
    /\ spawned' = spawned \o SpawnedBy(rule, vi)
    /\ UNCHANGED <<data_list, i, failures, timeout, procs, outcome, vi, fail_status,
                   results, outcomes, how, verdicts, exit_status, totals>>

\* run_validators returns fail_status, verify and Test.run return it, and
\* Runner.run counts it and moves to the next test
Test_Returns ==
    /\ pc = "verify"
    /\ LoopDone(test.verify, vi, fail_status)
    /\ verdicts' = Append(verdicts, fail_status)
    /\ failures' = NextFailures(failures, fail_status)
    /\ i' = i + 1
    /\ pc' = "run"
    /\ UNCHANGED <<data_list, timeout, procs, outcome, vi, fail_status, results, spawned,
                   outcomes, how, exit_status, totals, exception>>

\* Runner.run after the loop: the totals are logged and exit(failures) called
Runner_Exit ==
    /\ pc = "run" /\ i > Len(data_list)
    /\ totals' = Totals(Len(data_list), failures)
    /\ exit_status' = PyInt(failures)
    /\ pc' = "exited"
    /\ UNCHANGED <<data_list, i, failures, timeout, procs, outcome, vi, fail_status,
                   results, spawned, outcomes, how, verdicts, exception>>

Next ==
    \/ load_tests
    \/ Execute_Communicate
    \/ Execute_ValueError
    \/ Execute_FileNotFoundError
    \/ Execute_PermissionError
    \/ Communicate_Returns
    \/ Communicate_TimeoutExpired
    \/ \E k \in 1..Len(data_list) : Child_Exits(k)
    \/ RunValidator
    \/ RunValidator_PermissionError
    \/ Test_Returns
    \/ Runner_Exit

Spec == Init /\ [][Next]_vars

\* the interpreter keeps running, a child that ends is reaped by communicate
\* and the timer of communicate fires: a step of the run that can be taken is
\* taken
FairSpec ==
    /\ Spec
    /\ WF_vars(Execute_Communicate)
    /\ WF_vars(Execute_ValueError)
    /\ WF_vars(Execute_FileNotFoundError)
    /\ WF_vars(Execute_PermissionError)
    /\ WF_vars(Communicate_Returns)
    /\ WF_vars(Communicate_TimeoutExpired)
    /\ WF_vars(RunValidator)
    /\ WF_vars(RunValidator_PermissionError)
    /\ WF_vars(Test_Returns)
    /\ WF_vars(Runner_Exit)

TypeOK ==
    /\ pc \in {"load", "run", "communicate", "verify", "exited", "crashed"}
    /\ i \in 1..(Len(data_list) + 1)
    /\ failures \in 0..Len(data_list)
    /\ Len(verdicts) <= Len(data_list)

\* ------------------------------------------------------------- the claims
LastTest == Len(verdicts)
\* run_validators has just returned for test LastTest: results and spawned
\* are those of that test
JustReturned == pc \in {"run", "exited"} /\ LastTest > 0
SomeRuleFailed == \E k \in 1..Len(results) : Truthy(results[k])

\* C1: an integer timeout n is resolved to n, the number of seconds that
\* bounds the wait of execute.
C1_IntegerPassedThrough ==
    (pc = "communicate" /\ test.timeout.kind = "int") => timeout = PyInt(test.timeout.n)

\* the seconds a timeout value stands for: the integer itself, or the value
\* of the h/m/s string
ConfiguredSeconds(timeout_value) ==
    IF timeout_value.kind = "int" THEN timeout_value.n ELSE get_timeout(timeout_value).v
Overruns(t) == ~t.command.ends \/ t.command.dur > ConfiguredSeconds(t.timeout)

\* C2: a test whose command does not finish within its configured timeout,
\* integer or string, leads to execute returning the timeout outcome
\* (exit code 1, empty stdout, empty stderr).
C2_BoundedWait ==
    \A k \in 1..MaxTests :
        (pc = "communicate" /\ i = k /\ Overruns(test))
            ~> (Len(outcomes) >= k
                /\ outcomes[k] = [return_code |-> 1, stdout |-> <<>>, stderr |-> <<>>])

\* C3: in no state after execute returned on a timeout is the child of that
\* test still running.
C3_ChildTerminatedOnTimeout ==
    \A k \in 1..Len(how) : how[k] = "timeout" => procs[k] # "running"

\* C4: run_validators reports FAIL exactly when at least one rule of the list
\* failed and PASS exactly when every rule passed; the empty list is a PASS.
C4_RuleSetVerdict ==
    JustReturned =>
        /\ Truthy(verdicts[LastTest]) <=> SomeRuleFailed
        /\ Status(verdicts[LastTest]) = "FAIL" <=> SomeRuleFailed
        /\ Status(verdicts[LastTest]) = "PASS"
              <=> \A k \in 1..Len(results) : ~Truthy(results[k])
        /\ Len(data_list[LastTest].verify) = 0 => Status(verdicts[LastTest]) = "PASS"

\* a failed rule followed by a passed one, and the verdict is FAIL
C4_Witness ==
    /\ JustReturned
    /\ Len(results) >= 2
    /\ Truthy(results[1]) /\ ~Truthy(results[2])
    /\ Status(verdicts[LastTest]) = "FAIL"

\* the indices, in order, of the command-output rules among the first n rules
RECURSIVE CmdRuleIndices(_, _)
CmdRuleIndices(verify_list, n) ==
    IF n = 0 THEN <<>>
    ELSE CmdRuleIndices(verify_list, n - 1)
            \o (IF verify_list[n].name \in CmdRuleNames THEN <<n>> ELSE <<>>)

\* C5: run_validators evaluates every rule of the list exactly once, in list
\* order, whatever the earlier rules returned, and calls the secondary Popen of
\* every command-output rule: while it runs the rules before vi are the ones
\* evaluated, and when it returns all of them are.
C5_NoShortCircuit ==
    /\ pc = "verify" =>
          /\ Len(results) = vi - 1
          /\ vi <= Len(test.verify) + 1
          /\ spawned = CmdRuleIndices(test.verify, vi - 1)
          /\ \A k \in 1..Len(results) :
                results[k] = run_validator(test.verify[k], outcome.return_code, outcome.stdout)
    /\ JustReturned =>
          /\ Len(results) = Len(data_list[LastTest].verify)
          /\ spawned = CmdRuleIndices(data_list[LastTest].verify,
                                      Len(data_list[LastTest].verify))

\* run_validators returned after a first rule that failed and a second,
\* command-output rule whose secondary process was started
C5_Witness ==
    /\ JustReturned
    /\ Len(results) = 2
    /\ Truthy(results[1])
    /\ data_list[LastTest].verify[2].name \in CmdRuleNames
    /\ spawned # <<>> /\ spawned[Len(spawned)] = 2

FailedTests == {k \in 1..Len(verdicts) : Truthy(verdicts[k])}
PassedTests == {k \in 1..Len(verdicts) : ~Truthy(verdicts[k])}

\* C6: when Runner.run finishes, the exit status is the number of tests whose
\* verdict was FAIL, the total is the number of tests supplied, passed + failed
\* = total, and the exit status is 0 exactly when every test passed.
C6_TallyAndExitStatus ==
    pc = "exited" =>
        /\ exit_status = PyInt(Cardinality(FailedTests))
        /\ totals.total = Len(data_list)
        /\ totals.failed = Cardinality(FailedTests)
        /\ totals.passed = Cardinality(PassedTests)
        /\ totals.passed + totals.failed = totals.total
        /\ exit_status.v = 0 <=> PassedTests = 1..Len(data_list)

\* a run that finished with a test that passed and a test that failed
C6_Witness ==
    /\ pc = "exited"
    /\ FailedTests # {} /\ PassedTests # {}
    /\ exit_status = PyInt(1)

\* execute was entered for test k
Attempted(k) == k < i \/ (k = i /\ pc # "run")

\* C7: a test whose executable is missing or may not be executed is recovered
\* as an outcome with exit code 1, and a test that was attempted has its
\* verdict when the run is over.
C7_ExecutorFailureRecovered ==
    \A k \in 1..Len(data_list) :
        (Attempted(k) /\ data_list[k].command.launch # "ok") =>
            /\ Len(outcomes) >= k
            /\ outcomes[k].return_code = 1
            /\ pc \in {"exited", "crashed"} => Len(verdicts) >= k

ExecutorFailed(k) == how[k] \in {"timeout", "notfound"}

\* C8 as stated: a test whose execution timed out or failed to launch gets
\* FAIL whenever its rule list holds a MATCH_EC or a MATCH_OUTPUT rule.
C8_DegradeToFail_AsStated ==
    \A k \in 1..Len(verdicts) :
        (/\ ExecutorFailed(k)
         /\ \E n \in 1..Len(data_list[k].verify) :
                data_list[k].verify[n].name \in {"MATCH_EC", "MATCH_OUTPUT"})
        => Status(verdicts[k]) = "FAIL"

\* C8, amended: every verdict of a test whose execution timed out or failed to
\* launch is FAIL whenever its rule list holds a MATCH_EC rule that expects a
\* code other than 1, or a MATCH_OUTPUT rule whose expression does not match
\* the stdout of the recovered outcome.
C8_DegradeToFail ==
    \A k \in 1..Len(verdicts) :
        (/\ ExecutorFailed(k)
         /\ \E n \in 1..Len(data_list[k].verify) :
                LET r == data_list[k].verify[n]
                IN \/ r.name = "MATCH_EC" /\ r.ec # 1
                   \/ r.name = "MATCH_OUTPUT" /\ ~ReSearch(r.output, outcomes[k].stdout))
        => Status(verdicts[k]) = "FAIL"

\* a timed-out test with a MATCH_EC 0 rule and a not-found test with a
\* MATCH_OUTPUT rule that does not match, both FAIL
C8_Witness ==
    /\ LastTest > 0
    /\ ExecutorFailed(LastTest)
    /\ Status(verdicts[LastTest]) = "FAIL"
    /\ \/ how[LastTest] = "timeout" /\ data_list[LastTest].verify = <<MatchEc(0)>>
       \/ how[LastTest] = "notfound"
            /\ data_list[LastTest].verify = <<MatchOutput(<<"O", "K">>)>>

RulePasses(r) == ~IsRaise(r) /\ ~Truthy(r)
RuleFails(r) == ~IsRaise(r) /\ Truthy(r)

\* C9: for the secondary command and expression of the rule run_validators is
\* at, NOT_MATCH_CMD_OUTPUT passes exactly when MATCH_CMD_OUTPUT fails, and
\* when the secondary command cannot be launched MATCH_CMD_OUTPUT fails and
\* NOT_MATCH_CMD_OUTPUT passes.
C9_ExactNegation ==
    (pc = "verify" /\ vi <= Len(test.verify) /\ rule.name \in CmdRuleNames) =>
        LET m == run_validator([rule EXCEPT !.name = "MATCH_CMD_OUTPUT"],
                               outcome.return_code, outcome.stdout)
            n == run_validator([rule EXCEPT !.name = "NOT_MATCH_CMD_OUTPUT"],
                               outcome.return_code, outcome.stdout)
        IN /\ RulePasses(n) <=> RuleFails(m)
           /\ rule.command.launch # "ok" => RuleFails(m) /\ RulePasses(n)

\* <N><unit>, or nothing
UnitSegment(s, unit) ==
    s = <<>> \/ (Len(s) >= 2 /\ s[Len(s)] = unit /\ IsNumeric(SubSeq(s, 1, Len(s) - 1)))
\* optional <N>h, then optional <N>m, then optional <N> with optional s
WellFormed(s) ==
    \E a \in 0..Len(s) : \E b \in a..Len(s) :
        /\ UnitSegment(Lower(SubSeq(s, 1, a)), "h")
        /\ UnitSegment(Lower(SubSeq(s, a + 1, b)), "m")
        /\ LET rest == Lower(SubSeq(s, b + 1, Len(s)))
           IN UnitSegment(rest, "s") \/ IsNumeric(rest)

\* C10: get_timeout returns a number of seconds for no timeout string that
\* is not of the form [<N>h][<N>m][<N>[s]]: execute waits only with a
\* well-formed string.
C10_MalformedRejected ==
    (pc = "communicate" /\ test.timeout.kind = "str") => WellFormed(test.timeout.s)
====
